---- MODULE Spec2Model ----
(***************************************************************************)
(* Resume / job-description parser service (src/app.py).                   *)
(*                                                                         *)
(* Strings are sequences: a JSON document is a sequence of one-character   *)
(* strings, a log/HTTP message is a sequence of words.  Python values are  *)
(* records of one shape, [t, s, n, items], so that any two can be compared.*)
(***************************************************************************)
EXTENDS Integers, Sequences, FiniteSets, TLC

(***************************************************************************)
(* Bounds.                                                                 *)
(***************************************************************************)
MaxLen == 4        \* longest completion content string (characters)
NumReqs == 2       \* incoming requests handled concurrently
MaxPages == 2      \* pages of an uploaded PDF

(***************************************************************************)
(* Python values as json.loads builds them.                                *)
(***************************************************************************)
PyStr(cs) == [t |-> "str", s |-> cs, n |-> 0, items |-> <<>>]
PyInt(k) == [t |-> "int", s |-> <<>>, n |-> k, items |-> <<>>]
PyList(vs) == [t |-> "list", s |-> <<>>, n |-> 0, items |-> vs]
\* one key/value entry of a dict
PyItem(k, v) == [t |-> "item", s |-> k, n |-> 0, items |-> <<v>>]
\* a dict keeps its entries in insertion order
PyDict(es) == [t |-> "dict", s |-> <<>>, n |-> 0, items |-> es]
PyNone == [t |-> "none", s |-> <<>>, n |-> 0, items |-> <<>>]

(***************************************************************************)
(* json.loads on the characters the model draws content from.              *)
(***************************************************************************)
Alphabet == {"{", "}", "[", "]", ",", ":", "\"", "k", "1", " "}
WHITESPACE == {" "}
Digits == <<"0", "1", "2", "3", "4", "5", "6", "7", "8", "9">>
IsDigit(c) == \E d \in 1..10 : Digits[d] = c
DigitVal(c) == (CHOOSE d \in 1..10 : Digits[d] = c) - 1

\* a parse step: failure, or a value and the index after it
Fail == [ok |-> FALSE, val |-> PyNone, end |-> 0, dup |-> FALSE]
Ok(v, e, d) == [ok |-> TRUE, val |-> v, end |-> e, dup |-> d]

RECURSIVE SkipWs(_, _)
SkipWs(s, i) ==
    IF i <= Len(s) /\ s[i] \in WHITESPACE THEN SkipWs(s, i + 1) ELSE i

\* i is the index after the opening quote
RECURSIVE scanstring(_, _, _)
scanstring(s, i, acc) ==
    IF i > Len(s) THEN Fail
    ELSE IF s[i] = "\"" THEN Ok(PyStr(acc), i + 1, FALSE)
    ELSE scanstring(s, i + 1, Append(acc, s[i]))

\* integer part of the NUMBER_RE match: 0 | [1-9][0-9]*
RECURSIVE ScanDigits(_, _, _)
ScanDigits(s, i, acc) ==
    IF i <= Len(s) /\ IsDigit(s[i])
    THEN ScanDigits(s, i + 1, 10 * acc + DigitVal(s[i]))
    ELSE Ok(PyInt(acc), i, FALSE)

ScanNumber(s, i) ==
    IF s[i] = "0" THEN Ok(PyInt(0), i + 1, FALSE) ELSE ScanDigits(s, i, 0)

\* dict[key] = value: a repeated key keeps its place and takes the new value
DictSet(es, k, v) ==
    IF \E j \in 1..Len(es) : es[j].s = k
    THEN [j \in 1..Len(es) |-> IF es[j].s = k THEN PyItem(k, v) ELSE es[j]]
    ELSE Append(es, PyItem(k, v))

DictHas(es, k) == \E j \in 1..Len(es) : es[j].s = k

RECURSIVE scan_once(_, _), JSONArray(_, _, _, _), JSONObject(_, _, _, _)
scan_once(s, i) ==
    IF i > Len(s) THEN Fail
    ELSE IF s[i] = "\"" THEN scanstring(s, i + 1, <<>>)
    ELSE IF s[i] = "{" THEN
        LET j == SkipWs(s, i + 1) IN
        IF j > Len(s) THEN Fail
        ELSE IF s[j] = "}" THEN Ok(PyDict(<<>>), j + 1, FALSE)
        ELSE IF s[j] = "\"" THEN JSONObject(s, j + 1, <<>>, FALSE)
        ELSE Fail
    ELSE IF s[i] = "[" THEN
        LET j == SkipWs(s, i + 1) IN
        IF j > Len(s) THEN Fail
        ELSE IF s[j] = "]" THEN Ok(PyList(<<>>), j + 1, FALSE)
        ELSE JSONArray(s, j, <<>>, FALSE)
    ELSE IF IsDigit(s[i]) THEN ScanNumber(s, i)
    ELSE Fail

\* i is the index of the next element
JSONArray(s, i, acc, dup) ==
    LET v == scan_once(s, i) IN
    IF ~v.ok THEN Fail
    ELSE LET j == SkipWs(s, v.end)
             vs == Append(acc, v.val)
             d == dup \/ v.dup IN
         IF j > Len(s) THEN Fail
         ELSE IF s[j] = "]" THEN Ok(PyList(vs), j + 1, d)
         ELSE IF s[j] = "," THEN JSONArray(s, SkipWs(s, j + 1), vs, d)
         ELSE Fail

\* i is the index after the opening quote of the next key
JSONObject(s, i, acc, dup) ==
    LET k == scanstring(s, i, <<>>) IN
    IF ~k.ok THEN Fail
    ELSE LET c == SkipWs(s, k.end) IN
         IF c > Len(s) \/ s[c] # ":" THEN Fail
         ELSE LET v == scan_once(s, SkipWs(s, c + 1)) IN
              IF ~v.ok THEN Fail
              ELSE LET j == SkipWs(s, v.end)
                       es == DictSet(acc, k.val.s, v.val)
                       d == dup \/ v.dup \/ DictHas(acc, k.val.s) IN
                   IF j > Len(s) THEN Fail
                   ELSE IF s[j] = "}" THEN Ok(PyDict(es), j + 1, d)
                   ELSE IF s[j] = "," THEN
                       LET q == SkipWs(s, j + 1) IN
                       IF q > Len(s) \/ s[q] # "\"" THEN Fail
                       ELSE JSONObject(s, q + 1, es, d)
                   ELSE Fail

\* json.loads: ok = FALSE stands for json.JSONDecodeError
json_loads(s) ==
    LET v == scan_once(s, SkipWs(s, 1)) IN
    IF ~v.ok THEN Fail
    ELSE IF SkipWs(s, v.end) # Len(s) + 1 THEN Fail
    ELSE v

\* lines 215-222 without the try/except: the decode error escapes
coerce_noexcept(extracted_info) ==
    LET p == json_loads(extracted_info) IN
    IF p.ok THEN [raised |-> FALSE, val |-> p.val]
    ELSE [raised |-> TRUE, val |-> PyNone]

\* lines 215-222: json.loads, and the raw string on json.JSONDecodeError
coerce(extracted_info) ==
    LET p == json_loads(extracted_info) IN
    IF p.ok THEN [raised |-> FALSE, val |-> p.val]
    ELSE [raised |-> FALSE, val |-> PyStr(extracted_info)]

(***************************************************************************)
(* Requests, uploads and the completion endpoint's answers.                *)
(***************************************************************************)
Reqs == 1..NumReqs
Names == 1..NumReqs                \* names mkstemp can hand out
ContentTypes == {"application/pdf", "text/plain"}

\* what a page gives to extract_text(): its text, or an exception
PageKinds == {"a", "bad"}
RECURSIVE PageSeqs(_)
PageSeqs(n) ==
    IF n = 0 THEN {<<>>}
    ELSE LET S == PageSeqs(n - 1) IN
         S \cup {Append(s, c) : s \in {x \in S : Len(x) = n - 1}, c \in PageKinds}

\* the bytes of an upload: a PDF with pages, or something PdfReader rejects
Bytes(pdf, pages) == [pdf |-> pdf, pages |-> pages]
Empty == Bytes(FALSE, <<>>)
\* fault: the step of extract_text_from_pdf the environment makes fail
Upload(fault, bytes) == [fault |-> fault, bytes |-> bytes]
Uploads ==
    {Upload(f, Empty) : f \in {"read", "write", "open"}}
    \cup {Upload("none", Empty)}
    \cup {Upload("none", Bytes(TRUE, ps)) : ps \in PageSeqs(MaxPages)}
NoUpload == Upload("none", Empty)
\* uploads sent under another content type: not a PDF, or a one-page PDF
OtherUploads == {Upload("none", Empty), Upload("none", Bytes(TRUE, <<"a">>))}

JobTexts == {<<"jd">>}

\* str(e) of the exception each failing step raises
ErrMsg(step) ==
    CASE step = "read" -> <<"read", "failed">>
      [] step = "write" -> <<"No", "space", "left">>
      [] step = "open" -> <<"No", "such", "file">>
      [] step = "parse" -> <<"EOF", "marker", "not", "found">>
      [] step = "page" -> <<"bad", "page">>

\* the completion endpoint's answer to one post
Answer(err, status, text, envelope, cont) ==
    [err |-> err, status |-> status, text |-> text, envelope |-> envelope,
     content |-> cont]
NoAnswer == Answer(FALSE, 0, <<>>, FALSE, <<>>)
ErrTexts == {<<"timeout">>}
\* answers with a status other than 200, each with its body
ErrorAnswers ==
    {Answer(FALSE, 201, <<"created">>, FALSE, <<>>),
     Answer(FALSE, 429, <<"rate", "limit">>, FALSE, <<>>),
     Answer(FALSE, 503, <<"timeout">>, FALSE, <<>>)}
Samples == {<<"{", "}">>, <<"[", "1", "]">>, <<"{">>}
Answers ==
    {Answer(TRUE, 0, t, FALSE, <<>>) : t \in ErrTexts}
    \cup ErrorAnswers
    \cup {Answer(FALSE, 200, <<>>, FALSE, <<>>)}
    \cup {Answer(FALSE, 200, <<>>, TRUE, c) : c \in Samples}

(***************************************************************************)
(* How a handler ends: a return value, an HTTPException, or an exception   *)
(* nothing catches.                                                        *)
(***************************************************************************)
Return(v) == [kind |-> "return", status |-> 200, detail |-> <<>>, val |-> v]
HTTPException(status_code, detail) ==
    [kind |-> "http", status |-> status_code, detail |-> detail, val |-> PyNone]
Crash == [kind |-> "crash", status |-> 500, detail |-> <<>>, val |-> PyNone]

Response(status, body) == [status |-> status, body |-> body]
NoResp == Response(0, PyNone)

ResumeInfo ==
    PyDict(<<PyItem(<<"name">>, PyNone), PyItem(<<"email">>, PyNone),
             PyItem(<<"phone">>, PyNone),
             PyItem(<<"technical_skills">>, PyList(<<>>)),
             PyItem(<<"soft_skills">>, PyList(<<>>)),
             PyItem(<<"experience">>, PyDict(<<>>)),
             PyItem(<<"education">>, PyDict(<<>>)),
             PyItem(<<"projects">>, PyList(<<>>))>>)

JobInfo ==
    PyDict(<<PyItem(<<"title">>, PyNone), PyItem(<<"company">>, PyNone),
             PyItem(<<"required_skills">>, PyList(<<>>)),
             PyItem(<<"preferred_skills">>, PyList(<<>>)),
             PyItem(<<"experience_requirements">>, PyDict(<<>>)),
             PyItem(<<"education_requirements">>, PyDict(<<>>)),
             PyItem(<<"responsibilities">>, PyList(<<>>))>>)

\* response_model: a dict is validated into the model (every field has a
\* default, and no key the content alphabet can spell names a field); any
\* other value fails validation, which nothing catches
response_model(model, v) == IF v.t = "dict" THEN Return(model) ELSE Crash

\* what the framework sends for the way the handler ended
Respond(out) ==
    CASE out.kind = "return" -> Response(200, out.val)
      [] out.kind = "http" ->
            Response(out.status, PyDict(<<PyItem(<<"detail">>, PyStr(out.detail))>>))
      [] out.kind = "crash" ->
            Response(500, PyStr(<<"Internal", "Server", "Error">>))

(***************************************************************************)
(* extract_text_from_pdf                                                   *)
(***************************************************************************)
File(owner, data) == [owner |-> owner, data |-> data]
NoFile == File(0, Empty)

\* line 70: mkstemp creates a file under a name no existing file has.  Which
\* unused name it is makes no difference to any handler, so the model takes
\* the least one; a name is handed out again once its file is unlinked.
NamedTemporaryFile(dir) ==
    CHOOSE name \in Names :
        /\ dir[name] = NoFile
        /\ \A other \in Names : dir[other] = NoFile => name <= other

os_unlink(dir, path) == [dir EXCEPT ![path] = NoFile]

\* the handler keeps what was extracted so far and goes on
except_partial(e, text) ==
    [raised |-> FALSE, detail |-> <<>>, text |-> text]

\* lines 89-91
except_Exception(e, text) ==
    [raised |-> TRUE,
     detail |-> <<"Error", "extracting", "text", "from", "PDF:">> \o e,
     text |-> <<>>]

\* lines 81-82: text += page.extract_text(), page by page
RECURSIVE extract_pages(_, _, _)
extract_pages(pages, page_num, text) ==
    IF page_num > Len(pages) THEN [ok |-> TRUE, text |-> text, err |-> <<>>]
    ELSE IF pages[page_num] = "bad"
         THEN [ok |-> FALSE, text |-> text, err |-> ErrMsg("page")]
         ELSE extract_pages(pages, page_num + 1, Append(text, pages[page_num]))

\* lines 80-82 on the bytes of the opened file
PdfReader(data) ==
    IF ~data.pdf THEN [ok |-> FALSE, text |-> <<>>, err |-> ErrMsg("parse")]
    ELSE extract_pages(data.pages, 1, <<>>)

\* lines 72-91, from the return of pdf_file.read() on: the result, and the
\* temporary directory it leaves
extract_text_from_pdf(up, dir, temp_path) ==
    IF up.fault \in {"read", "write"}
    THEN [res |-> except_Exception(ErrMsg(up.fault), <<>>), dir |-> dir]
    ELSE LET written == [dir EXCEPT ![temp_path].data = up.bytes] IN
         IF up.fault = "open"
         THEN [res |-> except_Exception(ErrMsg("open"), <<>>), dir |-> written]
         ELSE LET out == PdfReader(written[temp_path].data) IN
              IF ~out.ok
              THEN [res |-> except_Exception(out.err, out.text), dir |-> written]
              ELSE [res |-> [raised |-> FALSE, detail |-> <<>>, text |-> out.text],
                    dir |-> os_unlink(written, temp_path)]

(***************************************************************************)
(* query_groq                                                              *)
(***************************************************************************)
Payload(text, is_resume) == [text |-> text, is_resume |-> is_resume]

\* the request goes out again
post_twice(sent, payload) == Append(Append(sent, payload), payload)

\* line 199: one client.post
post(sent, payload) == Append(sent, payload)

GroqErrorDetail(text) == <<"Groq", "API", "Error:">> \o text

\* the transport failure reported with the words of the status failure
CommErrorDetailSame(e) == <<"Groq", "API", "Error:">> \o e

\* line 226
CommErrorDetail(e) == <<"Error", "communicating", "with", "Groq", "API:">> \o e

\* lines 199-226, from the return of client.post on
query_groq(ans) ==
    IF ans.err THEN HTTPException(500, CommErrorDetail(ans.text))
    ELSE IF ans.status # 200
         THEN HTTPException(ans.status, GroqErrorDetail(ans.text))
    ELSE IF ~ans.envelope THEN Crash
    ELSE LET c == coerce(ans.content) IN
         IF c.raised THEN Crash ELSE Return(c.val)

(***************************************************************************)
(* State.                                                                  *)
(***************************************************************************)
VARIABLES pc, req, temp, tmpdir, created, reads, sent, answer, resp,
          content, coerced, cpc

svars == <<pc, req, temp, tmpdir, created, reads, sent, answer, resp>>
cvars == <<content, coerced, cpc>>
vars == <<pc, req, temp, tmpdir, created, reads, sent, answer, resp,
          content, coerced, cpc>>

Request(route, content_type, upload, text) ==
    [route |-> route, content_type |-> content_type, upload |-> upload,
     text |-> text]
NoRequest == Request("none", "", NoUpload, <<>>)

InitService ==
    /\ pc = [r \in Reqs |-> "new"]
    /\ req = [r \in Reqs |-> NoRequest]
    /\ temp = [r \in Reqs |-> 0]
    /\ tmpdir = [n \in Names |-> NoFile]
    /\ created = [r \in Reqs |-> 0]
    /\ reads = [r \in Reqs |-> 0]
    /\ sent = [r \in Reqs |-> <<>>]
    /\ answer = [r \in Reqs |-> NoAnswer]
    /\ resp = [r \in Reqs |-> NoResp]

Init ==
    /\ InitService
    /\ content = <<>>
    /\ coerced = [raised |-> FALSE, val |-> PyNone]
    /\ cpc = "off"

\* the content-type test of line 235 left out
IsPdfAlways(content_type) == TRUE

\* line 235
IsPdf(content_type) == content_type = "application/pdf"

\* lines 229-240 and 70-72: up to the suspension in pdf_file.read()
parse_resume(r) ==
    /\ pc[r] = "new"
    /\ \E ct \in ContentTypes, up \in Uploads :
         /\ ct = "application/pdf" \/ up \in OtherUploads
         /\ req' = [req EXCEPT ![r] = Request("resume", ct, up, <<>>)]
         /\ IF ~IsPdf(ct)
            THEN /\ resp' = [resp EXCEPT ![r] =
                        Respond(HTTPException(400,
                            <<"Only", "PDF", "files", "are", "supported">>))]
                 /\ pc' = [pc EXCEPT ![r] = "done"]
                 /\ UNCHANGED <<temp, tmpdir, created>>
            ELSE /\ LET name == NamedTemporaryFile(tmpdir) IN
                      /\ tmpdir' = [tmpdir EXCEPT ![name] = File(r, Empty)]
                      /\ temp' = [temp EXCEPT ![r] = name]
                 /\ created' = [created EXCEPT ![r] = @ + 1]
                 /\ pc' = [pc EXCEPT ![r] = "read"]
                 /\ UNCHANGED resp
    /\ UNCHANGED <<reads, sent, answer, cvars>>

\* lines 72-91 and 240-243, 93-199: pdf_file.read() returns, the text is
\* extracted and the completion request goes out
read_returns(r) ==
    /\ pc[r] = "read"
    /\ reads' = [reads EXCEPT ![r] = @ + 1]
    /\ LET x == extract_text_from_pdf(req[r].upload, tmpdir, temp[r]) IN
       /\ tmpdir' = x.dir
       /\ IF x.res.raised
          THEN /\ resp' = [resp EXCEPT ![r] =
                      Respond(HTTPException(500, x.res.detail))]
               /\ pc' = [pc EXCEPT ![r] = "done"]
               /\ UNCHANGED sent
          ELSE /\ sent' = [sent EXCEPT ![r] = post(@, Payload(x.res.text, TRUE))]
               /\ pc' = [pc EXCEPT ![r] = "post"]
               /\ UNCHANGED resp
    /\ UNCHANGED <<req, temp, created, answer, cvars>>

\* lines 249-256, 93-199: up to the suspension in client.post
parse_job_description(r) ==
    /\ pc[r] = "new"
    /\ \E jd \in JobTexts :
         /\ req' = [req EXCEPT ![r] = Request("job", "", NoUpload, jd)]
         /\ sent' = [sent EXCEPT ![r] = post(@, Payload(jd, FALSE))]
    /\ pc' = [pc EXCEPT ![r] = "post"]
    /\ UNCHANGED <<temp, tmpdir, created, reads, answer, resp, cvars>>

\* lines 199-226, 243-246, 256-259: client.post returns or raises
post_returns(r) ==
    /\ pc[r] = "post"
    /\ \E ans \in Answers :
         /\ answer' = [answer EXCEPT ![r] = ans]
         /\ LET out == query_groq(ans)
                model == IF req[r].route = "resume" THEN ResumeInfo ELSE JobInfo IN
            resp' = [resp EXCEPT ![r] =
                Respond(IF out.kind = "return"
                        THEN response_model(model, out.val) ELSE out)]
    /\ pc' = [pc EXCEPT ![r] = "done"]
    /\ UNCHANGED <<req, temp, tmpdir, created, reads, sent, cvars>>

\* a health payload that reports another version
health_payload_stale ==
    PyDict(<<PyItem(<<"status">>, PyStr(<<"healthy">>)),
             PyItem(<<"version">>, PyStr(<<"0.9.0">>))>>)

\* line 265
health_payload ==
    PyDict(<<PyItem(<<"status">>, PyStr(<<"healthy">>)),
             PyItem(<<"version">>, PyStr(<<"1.0.0">>))>>)

\* lines 261-265
health_check(r) ==
    /\ pc[r] = "new"
    /\ req' = [req EXCEPT ![r] = Request("health", "", NoUpload, <<>>)]
    /\ resp' = [resp EXCEPT ![r] = Respond(Return(health_payload))]
    /\ pc' = [pc EXCEPT ![r] = "done"]
    /\ UNCHANGED <<temp, tmpdir, created, reads, sent, answer, cvars>>

Next ==
    \E r \in Reqs :
        \/ parse_resume(r)
        \/ read_returns(r)
        \/ parse_job_description(r)
        \/ post_returns(r)
        \/ health_check(r)

Spec == Init /\ [][Next]_vars

(***************************************************************************)
(* The coercion step of query_groq alone, on every content string up to    *)
(* MaxLen characters.                                                      *)
(***************************************************************************)
RECURSIVE Strings(_)
Strings(n) ==
    IF n = 0 THEN {<<>>}
    ELSE LET S == Strings(n - 1) IN
         S \cup {Append(s, c) : s \in {x \in S : Len(x) = n - 1}, c \in Alphabet}

InitCoerce ==
    /\ InitService
    /\ content \in Strings(MaxLen)
    /\ coerced = [raised |-> FALSE, val |-> PyNone]
    /\ cpc = "call"

Coerce ==
    /\ cpc = "call"
    /\ coerced' = coerce(content)
    /\ cpc' = "done"
    /\ UNCHANGED <<content, svars>>

NextCoerce == Coerce

SpecCoerce == InitCoerce /\ [][NextCoerce]_vars
(***************************************************************************)
(* Vocabulary of the properties.                                           *)
(***************************************************************************)
Contains(msg, part) ==
    \E i \in 0..(Len(msg) - Len(part)) : SubSeq(msg, i + 1, i + Len(part)) = part

\* the body {"detail": message} of an HTTPException
IsDetail(body) ==
    body.t = "dict" /\ Len(body.items) = 1 /\ body.items[1].s = <<"detail">>
DetailOf(body) == body.items[1].items[1].s

Done(r) == pc[r] = "done"
OwnsFile(r) == \E n \in Names : tmpdir[n].owner = r
PdfRequest(r) ==
    req[r].route = "resume" /\ req[r].content_type = "application/pdf"
\* extract_text_from_pdf was called for r and has returned or raised
Extracted(r) == PdfRequest(r) /\ pc[r] \in {"post", "done"}
\* the completion endpoint answered r with a status other than 200
StatusFailure(r) == Done(r) /\ ~answer[r].err /\ answer[r].status \notin {0, 200}
TransportFailure(r) == Done(r) /\ answer[r].err

\* json.dumps(v, separators=(",", ":"))
RECURSIVE IntChars(_)
IntChars(k) ==
    IF k < 10 THEN <<Digits[k + 1]>>
    ELSE Append(IntChars(k \div 10), Digits[(k % 10) + 1])

RECURSIVE Dumps(_), DumpsAll(_, _)
Dumps(v) ==
    CASE v.t = "str" -> <<"\"">> \o v.s \o <<"\"">>
      [] v.t = "int" -> IntChars(v.n)
      [] v.t = "list" -> <<"[">> \o DumpsAll(v.items, 1) \o <<"]">>
      [] v.t = "dict" -> <<"{">> \o DumpsAll(v.items, 1) \o <<"}">>
      [] v.t = "item" -> <<"\"">> \o v.s \o <<"\"", ":">> \o Dumps(v.items[1])
DumpsAll(vs, i) ==
    IF i > Len(vs) THEN <<>>
    ELSE IF i = Len(vs) THEN Dumps(vs[i])
    ELSE Dumps(vs[i]) \o <<",">> \o DumpsAll(vs, i + 1)

\* a document without the whitespace that stands outside its string literals
RECURSIVE Compact(_, _, _)
Compact(s, i, quoted) ==
    IF i > Len(s) THEN <<>>
    ELSE IF s[i] = "\"" THEN <<s[i]>> \o Compact(s, i + 1, ~quoted)
    ELSE IF s[i] = " " /\ ~quoted THEN Compact(s, i + 1, quoted)
    ELSE <<s[i]>> \o Compact(s, i + 1, quoted)

(***************************************************************************)
(* Properties.                                                             *)
(***************************************************************************)

\* C1: once extract_text_from_pdf has returned or raised for a request, the
\* temporary file that call created no longer exists.
C1_NoTempFileLeft == \A r \in Reqs : Extracted(r) => ~OwnsFile(r)

\* C2: a resume request whose content type is not application/pdf is answered
\* 400 without the upload being read, a temporary file being created or a
\* completion request being sent.
C2_NonPdfRejectedFirst ==
    \A r \in Reqs :
        (req[r].route = "resume" /\ req[r].content_type # "application/pdf")
        => /\ Done(r)
           /\ resp[r].status = 400
           /\ reads[r] = 0
           /\ created[r] = 0
           /\ temp[r] = 0
           /\ sent[r] = <<>>

C2_Witness ==
    \E r \in Reqs :
        /\ Done(r)
        /\ req[r].route = "resume"
        /\ req[r].content_type = "text/plain"
        /\ req[r].upload.bytes.pdf
        /\ resp[r].status = 400

\* C3: when the completion endpoint answers with a 4xx or 5xx status, the
\* caller receives status 500 with the upstream body in the message.
C3_UpstreamErrorIs500 ==
    \A r \in Reqs :
        (StatusFailure(r) /\ answer[r].status \in 400..599)
        => /\ resp[r].status = 500
           /\ IsDetail(resp[r].body)
           /\ Contains(DetailOf(resp[r].body), answer[r].text)

\* C4: a transport failure is answered 500 with a message that names a
\* communication failure and differs from every message given for an answer
\* with a status other than 200.
C4_TransportFailureDistinct ==
    \A r \in Reqs :
        TransportFailure(r)
        => /\ resp[r].status = 500
           /\ IsDetail(resp[r].body)
           /\ Contains(DetailOf(resp[r].body), <<"Error", "communicating">>)
           /\ Contains(DetailOf(resp[r].body), answer[r].text)
           /\ \A q \in Reqs : StatusFailure(q) => resp[q].body # resp[r].body

C4_Witness ==
    \E r, q \in Reqs :
        /\ TransportFailure(r)
        /\ StatusFailure(q)
        /\ answer[q].text = answer[r].text
        /\ answer[q].status = 503

\* C5: the coercion step never raises; valid JSON content comes back as the
\* structure it denotes (dumping the result gives the content without its
\* insignificant whitespace, unless an object repeats a key), and content
\* that is not valid JSON comes back as the same string.
C5_CoercionLaw ==
    cpc = "done"
    => LET p == json_loads(content) IN
       /\ ~coerced.raised
       /\ p.ok => /\ coerced.val.t \in {"str", "int", "list", "dict"}
                  /\ p.dup \/ Dumps(coerced.val) = Compact(content, 1, FALSE)
       /\ ~p.ok => coerced.val = PyStr(content)

C5_Witness ==
    /\ cpc = "done"
    /\ json_loads(content).ok
    /\ coerced.val.t = "list"
    /\ Len(coerced.val.items) = 1
    /\ Len(Compact(content, 1, FALSE)) < Len(content)

\* C6: a request sends at most one completion request, whatever the answer,
\* and none when it ends before the remote step.
C6_AtMostOnePost ==
    \A r \in Reqs :
        /\ Len(sent[r]) <= 1
        /\ (Done(r) /\ answer[r] = NoAnswer) => sent[r] = <<>>

C6_Witness ==
    \E r, q \in Reqs :
        /\ TransportFailure(r) /\ Len(sent[r]) = 1
        /\ Done(q) /\ PdfRequest(q) /\ answer[q] = NoAnswer /\ sent[q] = <<>>

\* C7: a PDF-typed upload that cannot be parsed as a PDF is answered 500 with
\* the parser's error in the message and nothing else, and no completion
\* request is sent.
C7_CorruptPdfIs500 ==
    \A r \in Reqs :
        (Extracted(r) /\ req[r].upload.fault = "none" /\ ~req[r].upload.bytes.pdf)
        => /\ Done(r)
           /\ resp[r].status = 500
           /\ IsDetail(resp[r].body)
           /\ DetailOf(resp[r].body) =
                <<"Error", "extracting", "text", "from", "PDF:",
                  "EOF", "marker", "not", "found">>
           /\ sent[r] = <<>>
           /\ answer[r] = NoAnswer

C7_Witness ==
    \E r \in Reqs :
        /\ Done(r) /\ PdfRequest(r)
        /\ req[r].upload.fault = "none" /\ ~req[r].upload.bytes.pdf
        /\ reads[r] = 1
        /\ resp[r].status = 500

\* C8: /parse/resume answers 400, 200 or 500 and /parse/job-description 200 or
\* 500 only, and a 2xx answer of the completion endpoint never becomes an
\* error response.
C8_StatusCodes ==
    \A r \in Reqs :
        Done(r)
        => /\ req[r].route = "resume" => resp[r].status \in {400, 200, 500}
           /\ req[r].route = "job" => resp[r].status \in {200, 500}
           /\ (~answer[r].err /\ answer[r].status \in 200..299)
              => resp[r].status = 200

\* C9: a health probe answers 200 with {"status": "healthy", "version":
\* "1.0.0"} whatever the other requests and the completion endpoint do, and
\* the step that handles it touches no temporary file and sends nothing.
C9_HealthState ==
    \A r \in Reqs :
        req[r].route = "health"
        => /\ Done(r)
           /\ resp[r].status = 200
           /\ resp[r].body.t = "dict"
           /\ Len(resp[r].body.items) = 2
           /\ resp[r].body.items[1].s = <<"status">>
           /\ resp[r].body.items[1].items[1] = PyStr(<<"healthy">>)
           /\ resp[r].body.items[2].s = <<"version">>
           /\ resp[r].body.items[2].items[1] = PyStr(<<"1.0.0">>)
           /\ created[r] = 0 /\ reads[r] = 0 /\ sent[r] = <<>> /\ temp[r] = 0
           /\ answer[r] = NoAnswer

C9_HealthFrame ==
    \A r \in Reqs :
        (req[r].route = "none" /\ req'[r].route = "health")
        => /\ tmpdir' = tmpdir
           /\ sent' = sent
           /\ created' = created
           /\ reads' = reads
           /\ \A q \in Reqs \ {r} : pc'[q] = pc[q] /\ resp'[q] = resp[q]

C9_HealthProbe == [](C9_HealthState) /\ [][C9_HealthFrame]_vars

C9_Witness ==
    \E r, q \in Reqs :
        /\ req[r].route = "health" /\ Done(r)
        /\ TransportFailure(q) /\ resp[q].status = 500

\* the response of a request handled with no other request in the service
Solo(rq, ans) ==
    LET model == IF rq.route = "resume" THEN ResumeInfo ELSE JobInfo
        out == query_groq(ans)
        remote == Respond(IF out.kind = "return"
                          THEN response_model(model, out.val) ELSE out)
        own == [n \in Names |-> IF n = 1 THEN File(1, Empty) ELSE NoFile]
    IN
    CASE rq.route = "health" -> Respond(Return(health_payload))
      [] rq.route = "job" -> remote
      [] rq.route = "resume" ->
            IF ~IsPdf(rq.content_type)
            THEN Respond(HTTPException(400,
                     <<"Only", "PDF", "files", "are", "supported">>))
            ELSE LET x == extract_text_from_pdf(rq.upload, own, 1) IN
                 IF x.res.raised THEN Respond(HTTPException(500, x.res.detail))
                 ELSE remote

\* C10: under any interleaving a request works on a temporary file of its
\* own, that file is gone before the request's completion request is sent and
\* before its handler returns, and the response is the one the request gets
\* when handled alone.
C10_RequestsIsolated ==
    \A r \in Reqs :
        /\ pc[r] = "read"
           => /\ tmpdir[temp[r]].owner = r
              /\ \A q \in Reqs \ {r} : pc[q] = "read" => temp[q] # temp[r]
        /\ pc[r] \in {"post", "done"} => ~OwnsFile(r)
        /\ Done(r) => resp[r] = Solo(req[r], answer[r])
====
